---- MODULE Spec2Model ----
(***************************************************************************)
(* Model of bot.py: the alert scanner made of fetch_alerts, filter_alerts, *)
(* simulate_trade_execution and the polling loop main.                     *)
(*                                                                         *)
(* Representation.  A JSON / Python value is a record [t, s, n]:           *)
(*   t = "num"  : a number, n is its value in hundredths (5.12 -> 512)     *)
(*   t = "str"  : a string; s = "decimal" for text that is a numeric       *)
(*                literal (n = its value in hundredths), s = "date" for    *)
(*                text of the shape dddd-dd-dd (n = the digits yyyymmdd),  *)
(*                any other s is the text itself                           *)
(*   t = "null" : None                                                     *)
(* An object of the heap is [type, d]: type = "dict" with d the mapping    *)
(* from keys to values, or another type (a list element that is no dict).  *)
(* Lists hold references (indices into the heap), as Python lists do.      *)
(* Time is counted in ticks, TicksPerDay ticks to one day.                 *)
(***************************************************************************)
EXTENDS Integers, Sequences, FiniteSets, TLC

VARIABLES
  DRY_RUN,    \* the mode flag read from the environment
  pc,         \* the statement the process is at
  now,        \* the clock, in ticks
  heap,       \* the objects the current lists refer to
  alerts,     \* the value bound to alerts: its kind and, for a list, its references
  trades,     \* the list bound to trades (valid_alerts of the last call)
  idx,        \* position of the for loop of main in trades
  log,        \* what the current cycle has printed and called, in order
  fill,       \* entry price and PnL of the last simulated trade
  uncaught,   \* the exception that ended the process, "none" otherwise
  cancelled,  \* an external cancellation request was delivered
  response,   \* the outcome of the last requests.get
  heap0,      \* the heap at the entry of the last filter_alerts call
  tsUsed,     \* the readings of datetime.now() of the last filter_alerts call
  prev,       \* input, output, heap and readings of the call before the last
  ncalls      \* number of filter_alerts calls made on the initial list

vars == <<DRY_RUN, pc, now, heap, alerts, trades, idx, log, fill, uncaught, cancelled,
          response, heap0, tsUsed, prev, ncalls>>

loopVars == <<DRY_RUN, idx, log, fill, uncaught, cancelled, response>>

(* ---------------------------- bounds ----------------------------------- *)
MaxLen == 2
MaxTicks == 1
MaxCalls == 2
TicksPerDay == 2

(* ------------------------ filter rules --------------------------------- *)
MIN_DAYS_TO_EXPIRY == 30
MIN_AVERAGE_PRICE == 5
MIN_PREMIUM == 100000
VOLUME_MULTIPLIER == <<3, 2>>

(* ------------------------ values --------------------------------------- *)
Fix(units) == units * 100
Num(n) == [t |-> "num", s |-> "", n |-> n]
DecStr(n) == [t |-> "str", s |-> "decimal", n |-> n]
DateStr(yyyymmdd) == [t |-> "str", s |-> "date", n |-> yyyymmdd]
Text(s) == [t |-> "str", s |-> s, n |-> 0]
Null == [t |-> "null", s |-> "", n |-> 0]

Ok(v) == [exc |-> "none", v |-> v]
Raise(e) == [exc |-> e, v |-> 0]

Range(f) == {f[x] : x \in DOMAIN f}

(* ------------------------ datetime ------------------------------------- *)
IsLeap(y) == (y % 4 = 0) /\ ((y % 100 # 0) \/ (y % 400 = 0))

DaysInMonth(y, m) ==
  IF m = 2 THEN (IF IsLeap(y) THEN 29 ELSE 28)
  ELSE IF m \in {4, 6, 9, 11} THEN 30 ELSE 31

RECURSIVE DaysBeforeMonth(_, _)
DaysBeforeMonth(y, m) ==
  IF m <= 1 THEN 0 ELSE DaysBeforeMonth(y, m - 1) + DaysInMonth(y, m - 1)

DaysBeforeYear(y) ==
  (y - 1) * 365 + ((y - 1) \div 4) - ((y - 1) \div 100) + ((y - 1) \div 400)

ToOrdinal(y, m, d) == DaysBeforeYear(y) + DaysBeforeMonth(y, m) + d

\* datetime.strptime(x, "%Y-%m-%d"): the day ordinal of the date (midnight)
strptime(x) ==
  IF x.t # "str" THEN Raise("TypeError")
  ELSE IF x.s # "date" THEN Raise("ValueError")
  ELSE LET y == x.n \div 10000
           m == (x.n \div 100) % 100
           d == x.n % 100
       IN IF y >= 1 /\ m \in 1..12 /\ d >= 1 /\ d <= DaysInMonth(y, m)
          THEN Ok(ToOrdinal(y, m, d))
          ELSE Raise("ValueError")

\* (expiry - datetime.now()).days: timedelta.days is the floor of the
\* difference in days; expiry is at midnight, t is a time in ticks
timedelta_days(expiry, t) == (expiry * TicksPerDay - t) \div TicksPerDay

(* ------------------------ conversions ---------------------------------- *)
\* float(x), in hundredths
float(x) ==
  IF x.t = "num" THEN Ok(x.n)
  ELSE IF x.t = "str" THEN (IF x.s = "decimal" THEN Ok(x.n) ELSE Raise("ValueError"))
  ELSE Raise("TypeError")

\* alert[k]
GetItem(obj, k) ==
  IF obj.type # "dict" THEN Raise("TypeError")
  ELSE IF k \notin DOMAIN obj.d THEN Raise("KeyError")
  ELSE Ok(obj.d[k])

\* alert.get(k, default)
Get(obj, k, default) ==
  IF obj.type # "dict" THEN Raise("AttributeError")
  ELSE Ok(IF k \in DOMAIN obj.d THEN obj.d[k] ELSE default)

\* alert[k] = v
SetItem(obj, k, v) ==
  [obj EXCEPT !.d = [x \in (DOMAIN obj.d) \cup {k} |-> IF x = k THEN v ELSE obj.d[x]]]

\* p / q rounded to an integer, q > 0: round half to even
round_div(p, q) ==
  LET lo == p \div q
      r2 == 2 * (p % q)
  IN IF r2 < q THEN lo
     ELSE IF r2 > q THEN lo + 1
     ELSE IF lo % 2 = 0 THEN lo ELSE lo + 1

\* round(p / q, 2) in hundredths
round2(p, q) == round_div(100 * p, q)

(* ------------------------ filter_alerts -------------------------------- *)
\* volume / open_interest if open_interest > 0 else 0, as a fraction <<p, q>>
vol_ratio_alt(volume, open_interest) ==
  IF open_interest > 0 THEN <<volume, open_interest>> ELSE <<volume, 1>>
vol_ratio(volume, open_interest) ==
  IF open_interest > 0 THEN <<volume, open_interest>> ELSE <<0, 1>>

\* the condition of the if statement
qualifies_noavg(days_to_expiry, avg_price, premium, ratio) ==
  /\ days_to_expiry >= MIN_DAYS_TO_EXPIRY
  /\ premium >= Fix(MIN_PREMIUM)
  /\ ratio[1] * VOLUME_MULTIPLIER[2] >= VOLUME_MULTIPLIER[1] * ratio[2]
qualifies_alt(days_to_expiry, avg_price, premium, ratio) ==
  /\ days_to_expiry >= MIN_DAYS_TO_EXPIRY
  /\ avg_price >= Fix(MIN_AVERAGE_PRICE)
  /\ premium > Fix(MIN_PREMIUM)
  /\ ratio[1] * VOLUME_MULTIPLIER[2] >= VOLUME_MULTIPLIER[1] * ratio[2]
qualifies(days_to_expiry, avg_price, premium, ratio) ==
  /\ days_to_expiry >= MIN_DAYS_TO_EXPIRY
  /\ avg_price >= Fix(MIN_AVERAGE_PRICE)
  /\ premium >= Fix(MIN_PREMIUM)
  /\ ratio[1] * VOLUME_MULTIPLIER[2] >= VOLUME_MULTIPLIER[1] * ratio[2]

\* the two assignments of the if body
annotate_alt(obj, days_to_expiry, ratio) ==
  SetItem(SetItem(obj, "days_to_expiry", Num(Fix(days_to_expiry))),
          "volume", Num(round2(ratio[1], ratio[2])))
annotate(obj, days_to_expiry, ratio) ==
  SetItem(SetItem(obj, "days_to_expiry", Num(Fix(days_to_expiry))),
          "volume_ratio", Num(round2(ratio[1], ratio[2])))

\* the if statement: annotate and append, or leave the record alone
Skipped(obj) == [obj |-> obj, keep |-> FALSE, exc |-> TRUE]

decide_alt(obj, days_to_expiry, avg_price, premium, ratio) ==
  [obj |-> annotate(obj, days_to_expiry, ratio),
   keep |-> qualifies(days_to_expiry, avg_price, premium, ratio),
   exc |-> FALSE]
decide(obj, days_to_expiry, avg_price, premium, ratio) ==
  IF qualifies(days_to_expiry, avg_price, premium, ratio)
  THEN [obj |-> annotate(obj, days_to_expiry, ratio), keep |-> TRUE, exc |-> FALSE]
  ELSE [obj |-> obj, keep |-> FALSE, exc |-> FALSE]

\* One iteration of the for loop on the object obj, datetime.now() = t.
\* The result is the object after the iteration, whether it was appended,
\* and whether the try block raised.
loop_body(obj, t) ==
  LET e == GetItem(obj, "expiration") IN
  IF e.exc # "none" THEN Skipped(obj) ELSE
  LET expiry == strptime(e.v) IN
  IF expiry.exc # "none" THEN Skipped(obj) ELSE
  LET days_to_expiry == timedelta_days(expiry.v, t)
      a == GetItem(obj, "average_price") IN
  IF a.exc # "none" THEN Skipped(obj) ELSE
  LET avg_price == float(a.v) IN
  IF avg_price.exc # "none" THEN Skipped(obj) ELSE
  LET p == GetItem(obj, "premium") IN
  IF p.exc # "none" THEN Skipped(obj) ELSE
  LET premium == float(p.v) IN
  IF premium.exc # "none" THEN Skipped(obj) ELSE
  LET volume == float(Get(obj, "volume", Num(0)).v) IN
  IF volume.exc # "none" THEN Skipped(obj) ELSE
  LET open_interest == float(Get(obj, "open_interest", Num(Fix(1))).v) IN
  IF open_interest.exc # "none" THEN Skipped(obj) ELSE
  decide(obj, days_to_expiry, avg_price.v, premium.v,
         vol_ratio(volume.v, open_interest.v))

\* what the loop does after an iteration that raised: continue
after_exception_alt(items, i) == Len(items) + 1
after_exception(items, i) == i + 1

RECURSIVE filter_loop(_, _, _, _, _)
filter_loop(h, items, ts, i, valid_alerts) ==
  IF i > Len(items) THEN [exc |-> "none", heap |-> h, valid_alerts |-> valid_alerts]
  ELSE LET r == loop_body(h[items[i]], ts[i])
           h2 == [h EXCEPT ![items[i]] = r.obj]
       IN IF r.exc THEN filter_loop(h2, items, ts, after_exception(items, i), valid_alerts)
          ELSE filter_loop(h2, items, ts, i + 1,
                           IF r.keep THEN Append(valid_alerts, items[i]) ELSE valid_alerts)

\* for ... in alerts
Iterable(a) == a.kind \in {"list", "str", "dict"}

\* filter_alerts(alerts) on the heap h; ts[i] is datetime.now() as read in
\* iteration i
filter_alerts(h, a, ts) ==
  IF ~Iterable(a) THEN [exc |-> "TypeError", heap |-> h, valid_alerts |-> <<>>]
  ELSE filter_loop(h, a.items, ts, 1, <<>>)

(* ------------------------ alert records -------------------------------- *)
Alert(ticker, side, strike, expiration, average_price, premium, volume, open_interest) ==
  [type |-> "dict",
   d |-> [ticker |-> Text(ticker), side |-> Text(side), strike |-> Num(Fix(strike)),
          expiration |-> DateStr(expiration), average_price |-> Num(average_price),
          premium |-> Num(Fix(premium)), volume |-> Num(Fix(volume)),
          open_interest |-> Num(Fix(open_interest))]]

TSLA == Alert("TSLA", "CALL", 250, 20251220, 512, 210000, 500, 200)
NVDA == Alert("NVDA", "PUT", 400, 20251115, 480, 150000, 300, 150)
AAPL == Alert("AAPL", "CALL", 200, 20251025, 210, 50000, 100, 200)

\* the dummy test data of fetch_alerts
FallbackData == <<TSLA, NVDA, AAPL>>

\* del alert[k]
Del(obj, k) == [obj EXCEPT !.d = [x \in (DOMAIN obj.d) \ {k} |-> obj.d[x]]]

\* a list element that is not an object
NotADict == [type |-> "int", d |-> [x \in {} |-> Null]]

\* The records the provider's list is drawn from: TSLA with one field
\* changed to a boundary, malformed or missing value, and the other two
\* records of the dummy data.
AlertRecords ==
  {TSLA, NVDA, AAPL, NotADict,
   SetItem(TSLA, "expiration", DateStr(20251025)),
   SetItem(TSLA, "expiration", DateStr(20250230)),
   Del(TSLA, "expiration"),
   SetItem(TSLA, "average_price", Num(Fix(MIN_AVERAGE_PRICE))),
   SetItem(TSLA, "average_price", Text("n/a")),
   SetItem(TSLA, "average_price", DecStr(512)),
   SetItem(TSLA, "premium", Num(Fix(MIN_PREMIUM))),
   SetItem(TSLA, "premium", Num(Fix(MIN_PREMIUM) - 1)),
   SetItem(TSLA, "volume", Num(Fix(300))),
   SetItem(TSLA, "volume", Null),
   Del(TSLA, "volume"),
   SetItem(TSLA, "open_interest", Num(0)),
   SetItem(SetItem(TSLA, "open_interest", Num(Fix(0 - 200))), "volume", Num(Fix(0 - 500))),
   Del(TSLA, "open_interest"),
   SetItem(Del(TSLA, "open_interest"), "volume", Num(Fix(1))),
   Del(TSLA, "ticker")}

\* the lists filter_alerts is called on: the dummy data and the short lists
\* of these records
Batches == {FallbackData} \cup UNION {[1..n -> AlertRecords] : n \in 0..MaxLen}

Refs(h) == [i \in 1..Len(h) |-> i]
ListOf(items) == [kind |-> "list", items |-> items]

(* ------------------------ time ----------------------------------------- *)
\* the first instant of the model: midnight of 2025-09-25, thirty days
\* before the earliest expiration of the dummy data
Now0 == ToOrdinal(2025, 9, 25) * TicksPerDay
MaxNow == Now0 + MaxTicks

\* the readings of datetime.now() of n successive iterations, from time t on
RECURSIVE TimeSeqs(_, _)
TimeSeqs(n, t) ==
  IF n = 0 THEN {<<>>}
  ELSE UNION {{<<u>> \o s : s \in TimeSeqs(n - 1, u)} : u \in t..MaxNow}

LastTime(ts, t) == IF ts = <<>> THEN t ELSE ts[Len(ts)]

(* ------------------------ filter_alerts called ------------------------- *)
NoResponse == [outcome |-> "none", status |-> 0, kind |-> "none", elems |-> <<>>,
               chains |-> [kind |-> "absent", elems |-> <<>>]]
NoFill == [entry |-> 0, pnl |-> 0]
NoPrev == [items |-> <<>>, trades |-> <<>>, heap |-> <<>>, ts |-> <<>>]

InitFilter ==
  /\ DRY_RUN = TRUE
  /\ pc = "call"
  /\ now = Now0
  /\ heap \in Batches
  /\ alerts = ListOf(Refs(heap))
  /\ trades = <<>>
  /\ idx = 0
  /\ log = <<>>
  /\ fill = NoFill
  /\ uncaught = "none"
  /\ cancelled = FALSE
  /\ response = NoResponse
  /\ heap0 = heap
  /\ tsUsed = <<>>
  /\ prev = NoPrev
  /\ ncalls = 0

\* trades = filter_alerts(alerts)
CallFilter ==
  /\ pc = "call"
  /\ \E ts \in TimeSeqs(Len(alerts.items), now) :
       LET r == filter_alerts(heap, alerts, ts) IN
       /\ heap' = r.heap
       /\ trades' = r.valid_alerts
       /\ heap0' = heap
       /\ tsUsed' = ts
       /\ now' = LastTime(ts, now)
  /\ pc' = "returned"
  /\ ncalls' = ncalls + 1
  /\ UNCHANGED <<loopVars, alerts, prev>>

\* a further call, on the same list or on the list the last call returned
CallAgain ==
  /\ pc = "returned"
  /\ ncalls < MaxCalls
  /\ prev' = [items |-> alerts.items, trades |-> trades, heap |-> heap, ts |-> tsUsed]
  /\ \E a \in {alerts.items, trades} : alerts' = ListOf(a)
  /\ pc' = "call"
  /\ UNCHANGED <<loopVars, now, heap, trades, heap0, tsUsed, ncalls>>

NextFilter == CallFilter

\* one call of filter_alerts on a list of Batches
SpecFilter == InitFilter /\ [][NextFilter]_vars

\* the lists of the repeated calls
RepeatRecords ==
  {TSLA, NVDA, NotADict,
   SetItem(TSLA, "expiration", DateStr(20251025)),
   SetItem(TSLA, "average_price", Text("n/a")),
   Del(TSLA, "open_interest")}

RepeatBatches == UNION {[1..n -> RepeatRecords] : n \in 0..MaxLen}

InitRepeat == InitFilter /\ heap \in RepeatBatches

NextRepeat == CallFilter \/ CallAgain

\* up to MaxCalls successive calls of filter_alerts
SpecRepeat == InitRepeat /\ [][NextRepeat]_vars

(* ------------------------ fetch_alerts --------------------------------- *)
\* The provider's lists in the polling loop.
ProviderRecords ==
  {TSLA, NVDA, NotADict,
   SetItem(TSLA, "expiration", DateStr(20251025)),
   SetItem(TSLA, "premium", Text("n/a")),
   Del(TSLA, "ticker")}

ProviderLists == UNION {[1..n -> ProviderRecords] : n \in 0..MaxLen}

Json(kind, elems) == [kind |-> kind, elems |-> elems]
Absent == Json("absent", <<>>)
StrElem == [type |-> "str", d |-> [x \in {} |-> Null]]

\* what requests.get can do: raise, or return a response with a status and
\* a body; the body is undecodable or a JSON value
Responses ==
  {[outcome |-> o, status |-> 0, kind |-> "none", elems |-> <<>>, chains |-> Absent] :
     o \in {"ConnectionError", "Timeout"}}
  \cup {[outcome |-> "response", status |-> 500, kind |-> "list", elems |-> <<TSLA>>,
         chains |-> Absent]}
  \cup {[outcome |-> "response", status |-> 200, kind |-> k, elems |-> <<>>,
         chains |-> Absent] : k \in {"undecodable", "null", "num", "dict"}}
  \cup {[outcome |-> "response", status |-> 200, kind |-> "list", elems |-> l,
         chains |-> Absent] : l \in ProviderLists}
  \cup {[outcome |-> "response", status |-> 200, kind |-> "dict", elems |-> <<>>,
         chains |-> Json("list", l)] : l \in ProviderLists}
  \cup {[outcome |-> "response", status |-> 200, kind |-> "dict", elems |-> <<>>,
         chains |-> c] :
           c \in {Json("null", <<>>), Json("num", <<>>), Json("str", <<StrElem, StrElem>>),
                  Json("dict", <<StrElem>>)}}

\* response.json()
json(resp) ==
  IF resp.kind = "undecodable" THEN Raise("JSONDecodeError")
  ELSE Ok(Json(resp.kind, resp.elems))

\* fetch_alerts(), given what requests.get does: the value returned
fetch_alerts(resp) ==
  IF resp.outcome # "response" THEN Json("list", FallbackData)
  ELSE IF resp.status # 200 THEN Json("list", FallbackData)
  ELSE LET data == json(resp) IN
       IF data.exc # "none" THEN Json("list", FallbackData)
       ELSE IF data.v.kind = "list" THEN data.v
       ELSE IF data.v.kind = "dict" /\ resp.chains.kind # "absent" THEN resp.chains
       ELSE Json("list", FallbackData)

(* ------------------------ simulate_trade_execution --------------------- *)
\* draws of random.uniform(0.95, 1.05) and random.uniform(-0.1, 0.2), in
\* thousandths
Slippage == {950, 1000, 1050}
PnlFactor == {0 - 100, 200}

HasKeys(obj, ks) == obj.type = "dict" /\ ks \subseteq DOMAIN obj.d

\* entry in 1/100000, pnl in hundredths
simulate_trade_execution(trade, dry, u1, u2) ==
  IF dry
  THEN LET a == GetItem(trade, "average_price") IN
       IF a.exc # "none" THEN Raise(a.exc) ELSE
       LET f == float(a.v) IN
       IF f.exc # "none" THEN Raise(f.exc) ELSE
       LET simulated_price == f.v * u1
           pnl == round_div(u2 * simulated_price, 1000000)
       IN IF HasKeys(trade, {"ticker", "side", "strike", "expiration"})
          THEN Ok([entry |-> simulated_price, pnl |-> pnl])
          ELSE Raise("KeyError")
  ELSE IF HasKeys(trade, {"ticker"}) THEN Ok(NoFill) ELSE Raise("KeyError")

(* ------------------------ main ----------------------------------------- *)
Event(k, ref) == [k |-> k, ref |-> ref]

\* the summary line of one trade
summary_line(trade) ==
  IF HasKeys(trade, {"ticker", "side", "strike", "expiration", "premium",
                     "days_to_expiry", "volume_ratio"})
  THEN Ok(0) ELSE Raise("KeyError")

\* if trades: ... else: ...
report_branch(ts) == IF ts # <<>> THEN "trades" ELSE "heartbeat"

\* the for loop of main after one trade was handled
after_trade_alt(ts, i) == [pc |-> "wait", idx |-> i]
after_trade(ts, i) ==
  IF i < Len(ts) THEN [pc |-> "summary", idx |-> i + 1] ELSE [pc |-> "wait", idx |-> i]

Running == {"fetch", "filter", "report", "summary", "simulate", "wait"}

Init ==
  /\ DRY_RUN \in BOOLEAN
  /\ pc = "fetch"
  /\ now = Now0
  /\ heap = <<>>
  /\ alerts = ListOf(<<>>)
  /\ trades = <<>>
  /\ idx = 0
  /\ log = <<>>
  /\ fill = NoFill
  /\ uncaught = "none"
  /\ cancelled = FALSE
  /\ response = NoResponse
  /\ heap0 = <<>>
  /\ tsUsed = <<>>
  /\ prev = NoPrev
  /\ ncalls = 0

\* alerts = fetch_alerts()
Fetch ==
  /\ pc = "fetch"
  /\ \E resp \in Responses :
       LET data == fetch_alerts(resp) IN
       /\ response' = resp
       /\ heap' = data.elems
       /\ alerts' = [kind |-> data.kind, items |-> Refs(data.elems)]
  /\ pc' = "filter"
  /\ UNCHANGED <<DRY_RUN, now, trades, idx, log, fill, uncaught, cancelled, heap0,
                 tsUsed, prev, ncalls>>

\* trades = filter_alerts(alerts)
Filter ==
  /\ pc = "filter"
  /\ \E ts \in TimeSeqs(Len(alerts.items), now) :
       LET r == filter_alerts(heap, alerts, ts) IN
       /\ heap0' = heap
       /\ tsUsed' = ts
       /\ now' = LastTime(ts, now)
       /\ heap' = r.heap
       /\ IF r.exc = "none"
          THEN trades' = r.valid_alerts /\ pc' = "report" /\ uncaught' = uncaught
          ELSE trades' = trades /\ pc' = "terminated" /\ uncaught' = r.exc
  /\ UNCHANGED <<DRY_RUN, alerts, idx, log, fill, cancelled, response, prev, ncalls>>

\* if trades: print the count, else: print the heartbeat
Report ==
  /\ pc = "report"
  /\ IF report_branch(trades) = "trades"
     THEN /\ log' = Append(log, Event("found", Len(trades)))
          /\ idx' = 1
          /\ pc' = "summary"
     ELSE /\ log' = Append(log, Event("heartbeat", 0))
          /\ idx' = idx
          /\ pc' = "wait"
  /\ UNCHANGED <<DRY_RUN, now, heap, alerts, trades, fill, uncaught, cancelled,
                 response, heap0, tsUsed, prev, ncalls>>

\* the print of the loop body
Summary ==
  /\ pc = "summary"
  /\ IF summary_line(heap[trades[idx]]).exc = "none"
     THEN /\ log' = Append(log, Event("summary", trades[idx]))
          /\ pc' = "simulate"
          /\ uncaught' = uncaught
     ELSE /\ log' = log
          /\ pc' = "terminated"
          /\ uncaught' = summary_line(heap[trades[idx]]).exc
  /\ UNCHANGED <<DRY_RUN, now, heap, alerts, trades, idx, fill, cancelled, response,
                 heap0, tsUsed, prev, ncalls>>

\* simulate_trade_execution(trade), then the next iteration or the end of the loop
Simulate ==
  /\ pc = "simulate"
  /\ log' = Append(log, Event("simulate_trade_execution", trades[idx]))
  /\ \E u1 \in Slippage, u2 \in PnlFactor :
       LET r == simulate_trade_execution(heap[trades[idx]], DRY_RUN, u1, u2) IN
       IF r.exc = "none"
       THEN /\ fill' = r.v
            /\ pc' = after_trade(trades, idx).pc
            /\ idx' = after_trade(trades, idx).idx
            /\ uncaught' = uncaught
       ELSE /\ fill' = fill
            /\ pc' = "terminated"
            /\ idx' = idx
            /\ uncaught' = r.exc
  /\ UNCHANGED <<DRY_RUN, now, heap, alerts, trades, cancelled, response, heap0,
                 tsUsed, prev, ncalls>>

\* time.sleep(60), then the top of the loop; alerts and trades are not read
\* again before they are assigned, the model drops them here
Sleep ==
  /\ pc = "wait"
  /\ \E t \in now..MaxNow : now' = t
  /\ pc' = "fetch"
  /\ heap' = <<>>
  /\ alerts' = ListOf(<<>>)
  /\ trades' = <<>>
  /\ idx' = 0
  /\ log' = <<>>
  /\ fill' = NoFill
  /\ response' = NoResponse
  /\ heap0' = <<>>
  /\ tsUsed' = <<>>
  /\ UNCHANGED <<DRY_RUN, uncaught, cancelled, prev, ncalls>>

\* SIGINT: KeyboardInterrupt is raised at the statement being executed; no
\* handler in main or at the entry point catches it
Cancel ==
  /\ pc \in Running
  /\ cancelled' = TRUE
  /\ pc' = "terminated"
  /\ uncaught' = "KeyboardInterrupt"
  /\ UNCHANGED <<DRY_RUN, now, heap, alerts, trades, idx, log, fill, response, heap0,
                 tsUsed, prev, ncalls>>

Next == Fetch \/ Filter \/ Report \/ Summary \/ Simulate \/ Sleep \/ Cancel

Spec == Init /\ [][Next]_vars

(* ======================================================================= *)
(* Properties                                                              *)
(* ======================================================================= *)
IsNumeric(v) == v.t = "num" \/ (v.t = "str" /\ v.s = "decimal")

IsDate(v) ==
  /\ v.t = "str"
  /\ v.s = "date"
  /\ (v.n \div 100) % 100 \in 1..12
  /\ v.n % 100 \in 1..DaysInMonth(v.n \div 10000, (v.n \div 100) % 100)

\* the record parses: every field the filter reads is present (or has a
\* default) and has the right shape
WellFormed(o) ==
  /\ o.type = "dict"
  /\ {"expiration", "average_price", "premium"} \subseteq DOMAIN o.d
  /\ IsDate(o.d.expiration)
  /\ IsNumeric(o.d.average_price)
  /\ IsNumeric(o.d.premium)
  /\ "volume" \in DOMAIN o.d => IsNumeric(o.d.volume)
  /\ "open_interest" \in DOMAIN o.d => IsNumeric(o.d.open_interest)

ExpiryOf(o) ==
  ToOrdinal(o.d.expiration.n \div 10000, (o.d.expiration.n \div 100) % 100,
            o.d.expiration.n % 100)
VolumeOf(o) == IF "volume" \in DOMAIN o.d THEN o.d.volume.n ELSE 0
OpenInterestOf(o) == IF "open_interest" \in DOMAIN o.d THEN o.d.open_interest.n ELSE Fix(1)

\* the expiration is at least 30 whole days after the time t
ThirtyDaysOut(o, t) == ExpiryOf(o) * TicksPerDay - t >= MIN_DAYS_TO_EXPIRY * TicksPerDay

\* the four predicates of the filter on a well-formed record at time t
MeetsRules(o, t) ==
  /\ ThirtyDaysOut(o, t)
  /\ o.d.average_price.n >= Fix(5)
  /\ o.d.premium.n >= Fix(100000)
  /\ OpenInterestOf(o) > 0
  /\ 2 * VolumeOf(o) >= 3 * OpenInterestOf(o)

RECURSIVE Qualifying(_, _, _, _)
Qualifying(h, items, ts, i) ==
  IF i > Len(items) THEN <<>>
  ELSE (IF WellFormed(h[items[i]]) /\ MeetsRules(h[items[i]], ts[i])
        THEN <<items[i]>> ELSE <<>>) \o Qualifying(h, items, ts, i + 1)

C2_OpenInterest ==
  pc = "returned" =>
    \A i \in 1..Len(alerts.items) :
      LET o == heap0[alerts.items[i]] IN
      o.type = "dict" =>
        /\ ("open_interest" \in DOMAIN o.d /\ IsNumeric(o.d.open_interest)
              /\ o.d.open_interest.n <= 0)
             => alerts.items[i] \notin Range(trades)
        /\ "open_interest" \notin DOMAIN o.d
             => (alerts.items[i] \in Range(trades)
                   <=> LET o1 == SetItem(o, "open_interest", Num(Fix(1)))
                       IN WellFormed(o1) /\ MeetsRules(o1, tsUsed[i]))

C2_Witness ==
  /\ pc = "returned"
  /\ ncalls = 1
  /\ heap0 = <<SetItem(TSLA, "open_interest", Num(0)), Del(TSLA, "open_interest")>>
  /\ trades = <<2>>

\* the positions of items whose record is well formed
RECURSIVE WellFormedAt(_, _, _)
WellFormedAt(h, items, i) ==
  IF i > Len(items) THEN <<>>
  ELSE (IF WellFormed(h[items[i]]) THEN <<i>> ELSE <<>>) \o WellFormedAt(h, items, i + 1)

\* C3: a malformed record is dropped and changes nothing else: the call
\* ends without an error, and its output and its effect are those of the
\* call on the same list with the malformed records removed.
C3_MalformedDropped ==
  pc = "returned" =>
    LET at == WellFormedAt(heap0, alerts.items, 1)
        items2 == [k \in 1..Len(at) |-> alerts.items[at[k]]]
        ts2 == [k \in 1..Len(at) |-> tsUsed[at[k]]]
        r == filter_alerts(heap0, ListOf(items2), ts2)
    IN /\ filter_alerts(heap0, alerts, tsUsed).exc = "none"
       /\ r.exc = "none"
       /\ trades = r.valid_alerts
       /\ heap = r.heap

C3_Witness ==
  /\ pc = "returned"
  /\ Len(alerts.items) = 2
  /\ heap0[1].type = "dict"
  /\ ~WellFormed(heap0[1])
  /\ trades = <<2>>

AllThirtyDaysOut ==
  /\ Len(tsUsed) = Len(FallbackData)
  /\ \A i \in 1..Len(FallbackData) : ThirtyDaysOut(FallbackData[i], tsUsed[i])

\* C7 as stated: on the dummy data, with all three expirations at least 30
\* days out, the filter keeps TSLA and NVDA, in that order, and rejects AAPL.
C7_KeepsTslaAndNvda ==
  (pc = "returned" /\ heap0 = FallbackData /\ AllThirtyDaysOut) => trades = <<1, 2>>

\* C7 amended: on the dummy data, with all three expirations at least 30
\* days out, the filter keeps TSLA only; NVDA (average price 4.80 < 5) and
\* AAPL are rejected.
C7_KeepsTslaOnly ==
  (pc = "returned" /\ heap0 = FallbackData /\ AllThirtyDaysOut)
    => /\ trades = <<1>>
       /\ heap[1].d.volume_ratio = Num(250)
       /\ heap[2] = NVDA
       /\ heap[3] = AAPL

C7_Witness ==
  /\ pc = "returned"
  /\ ncalls = 1
  /\ heap0 = FallbackData
  /\ AllThirtyDaysOut
  /\ Len(trades) = 1

\* both calls read the same current time
FixedNow == Cardinality(Range(tsUsed) \cup Range(prev.ts)) <= 1

\* C8: at a fixed current time, a further call of filter_alerts on the same
\* records, or on the records the earlier call returned, yields the same
\* output: same records, same order, same days_to_expiry and volume_ratio.
C8_RepeatedCall ==
  (pc = "returned" /\ ncalls >= 2 /\ FixedNow)
    => /\ trades = prev.trades
       /\ heap = prev.heap

C8_Witness ==
  /\ pc = "returned"
  /\ ncalls >= 2
  /\ FixedNow
  /\ alerts.items = prev.trades
  /\ Len(prev.items) > Len(prev.trades)
  /\ trades # <<>>

Annotations == {"days_to_expiry", "volume_ratio"}

\* C10: filter_alerts changes its input only by writing days_to_expiry and
\* volume_ratio into the records it returns; the output refers to records
\* of the input; every other record is left as it was, and no other field
\* of any record is changed or removed.
C10_Frame ==
  pc = "returned" =>
    /\ Len(heap) = Len(heap0)
    /\ Range(trades) \subseteq Range(alerts.items)
    /\ \A r \in 1..Len(heap) :
         IF r \in Range(trades)
         THEN /\ heap[r].type = heap0[r].type
              /\ DOMAIN heap[r].d = (DOMAIN heap0[r].d) \cup Annotations
              /\ \A k \in (DOMAIN heap0[r].d) \ Annotations : heap[r].d[k] = heap0[r].d[k]
         ELSE heap[r] = heap0[r]

C10_Witness ==
  /\ pc = "returned"
  /\ ncalls = 1
  /\ Len(heap) = 2
  /\ trades = <<1>>
  /\ heap[1] # heap0[1]
  /\ WellFormed(heap0[2])
  /\ heap[2] = heap0[2]

(* ------------------------ the polling loop ----------------------------- *)
ProviderListOk(resp) ==
  /\ resp.outcome = "response"
  /\ resp.status = 200
  /\ resp.kind = "list" \/ (resp.kind = "dict" /\ resp.chains.kind = "list")

ProviderList(resp) == IF resp.kind = "list" THEN resp.elems ELSE resp.chains.elems

\* C4: fetch_alerts always returns a list of records: the provider's list
\* when the response has status 200 and is a list or holds a list under
\* "chains", the dummy data in every other case.
C4_FetchReturnsList ==
  pc = "filter" =>
    /\ alerts.kind = "list"
    /\ heap = IF ProviderListOk(response) THEN ProviderList(response) ELSE FallbackData

\* C5: no error stops the loop: the process ends only on external
\* cancellation.
C5_OnlyCancellationEnds == pc = "terminated" => cancelled

\* C6: a cancellation request is handled as a clean shutdown and never
\* surfaces as an uncaught failure.
C6_CleanShutdown == cancelled => (pc = "terminated" /\ uncaught = "none")

\* what the report step emits for the trades ts, the first n of them
RECURSIVE Emitted(_, _)
Emitted(ts, n) ==
  IF n = 0 THEN <<>>
  ELSE Emitted(ts, n - 1)
         \o <<Event("summary", ts[n]), Event("simulate_trade_execution", ts[n])>>

IsPrefix(a, b) == Len(a) <= Len(b) /\ \A i \in 1..Len(a) : a[i] = b[i]

Reported == SelectSeq(log, LAMBDA e : e.k # "found")

====
